---- MODULE Spec2Model ----
(***************************************************************************)
(* Model of the Conducttr publisher (src/streamlit_app.py): the team-name  *)
(* normalizer, the cached reference-data fetches, the connect / refresh    *)
(* actions, the team selection and the sequential publish loop.            *)
(*                                                                         *)
(* Text is modelled as a sequence of one-character strings so that the     *)
(* regular expressions and str.strip() are computed character by           *)
(* character.                                                              *)
(***************************************************************************)
EXTENDS Integers, Sequences, FiniteSets, TLC

\* ------------------------------------------------------------------------
\* Text helpers
\* ------------------------------------------------------------------------

Upper == {"A","B","C","D","E","F","G","H","I","J","K","L","M",
          "N","O","P","Q","R","S","T","U","V","W","X","Y","Z"}

Digit == {"0","1","2","3","4","5","6","7","8","9"}

\* characters removed by str.strip()
Whitespace == {" ", "\t", "\n", "\r"}

\* separators accepted by the class [\/-] of the date pattern
DateSep == {"/", "-"}

Drop(s, n) == IF n >= Len(s) THEN <<>> ELSE SubSeq(s, n + 1, Len(s))

Take(s, n) == IF n >= Len(s) THEN s ELSE SubSeq(s, 1, n)

\* str.startswith
StartsWith(s, p) == Len(s) >= Len(p) /\ SubSeq(s, 1, Len(p)) = p

RECURSIVE LStrip(_)
LStrip(s) == IF s # <<>> /\ Head(s) \in Whitespace THEN LStrip(Tail(s)) ELSE s

RECURSIVE RStrip(_)
RStrip(s) ==
  IF s # <<>> /\ s[Len(s)] \in Whitespace THEN RStrip(SubSeq(s, 1, Len(s) - 1)) ELSE s

\* str.strip()
Strip(s) == RStrip(LStrip(s))

\* re.sub(r"^[A-Z] - ", "", s)
StripPrefix(s) ==
  IF Len(s) >= 4 /\ s[1] \in Upper /\ SubSeq(s, 2, 4) = <<" ", "-", " ">>
  THEN Drop(s, 4) ELSE s

\* length of " - dddd?dd?dd"
DateLen == 13

\* the fixed part " - \d{4}[\/-]\d{2}[\/-]\d{2}" matches s at position p
DateAt(s, p) ==
  /\ p + DateLen - 1 <= Len(s)
  /\ SubSeq(s, p, p + 2) = <<" ", "-", " ">>
  /\ \A k \in {3, 4, 5, 6, 8, 9, 11, 12} : s[p + k] \in Digit
  /\ s[p + 7] \in DateSep
  /\ s[p + 10] \in DateSep

\* positions of line feeds at or after position p
LineFeeds(s, p) == {k \in p..Len(s) : s[k] = "\n"}

\* ".*$" after the fixed part: "." does not match a line feed and "$" matches
\* at the end of the text or just before a final line feed
DateMatch(s, p) ==
  /\ DateAt(s, p)
  /\ LineFeeds(s, p + DateLen) \subseteq {Len(s)}

\* variant: only the date itself is removed, the text after it stays
StripDateOnly(s) ==
  LET ps == {p \in 1..Len(s) : DateAt(s, p)}
  IN  IF ps = {} THEN s
      ELSE LET p == CHOOSE q \in ps : \A r \in ps : q <= r
           IN  Take(s, p - 1) \o Drop(s, p + DateLen - 1)

\* re.sub(r" - \d{4}[\/-]\d{2}[\/-]\d{2}.*$", "", s): the leftmost match is
\* removed; a final line feed is not part of the match and stays
StripDate(s) ==
  LET ps == {p \in 1..Len(s) : DateMatch(s, p)}
  IN  IF ps = {} THEN s
      ELSE LET p == CHOOSE q \in ps : \A r \in ps : q <= r
           IN  Take(s, p - 1) \o (IF s[Len(s)] = "\n" THEN <<"\n">> ELSE <<>>)

SessionLabel == <<"S","e","s","s","i","o","n">>

ModeratorsLabel == <<"M","o","d","e","r","a","t","o","r","s">>

clean_team_name(raw_name) ==
  IF StartsWith(raw_name, <<"S", " ", "-", " ">>) THEN SessionLabel
  ELSE IF StartsWith(raw_name, <<"M", " ", "-", " ">>) THEN ModeratorsLabel
  ELSE Strip(StripDate(StripPrefix(raw_name)))

\* ------------------------------------------------------------------------
\* Raw names the normalizer is exercised on: concatenations of fragments
\* ------------------------------------------------------------------------

MaxFragments == 4

Fragments ==
  { <<"S", " ", "-", " ">>,
    <<"M", " ", "-", " ">>,
    <<"T", " ", "-", " ">>,
    <<"N", "e", "w", "s">>,
    <<" ">>,
    <<"\n">>,
    <<"-">>,
    <<" ", "-", " ", "2", "0", "2", "4", "/", "0", "1", "/", "0", "5">>,
    <<" ", "-", " ", "2", "0", "2", "4", "-", "0", "1", "-", "0", "5">>,
    <<" ", "-", " ", "2", "0", "2", "4", "-", "0", "1", "-", "5">> }

RECURSIVE NamesOf(_)
NamesOf(n) ==
  IF n = 0 THEN {<<>>}
  ELSE LET shorter == NamesOf(n - 1)
       IN  shorter \cup {f \o s : f \in Fragments, s \in shorter}

RawNames == NamesOf(MaxFragments)

\* ------------------------------------------------------------------------
\* Reference data, sessions and the cached fetches
\* ------------------------------------------------------------------------

\* st.cache_data(ttl=300): seconds an entry stays usable
TTL == 300

\* seconds one Tick advances the clock, and the number of Ticks explored
TickStep == 200

MaxTicks == 2

\* browser sessions served by the one Streamlit process
Sessions == {1, 2}

\* text typed into the API-key field
KeyInputs == { <<" ">>, <<"a", " ">>, <<"b">> }

\* credentials that reach the fetch functions (stripped, non-empty)
Keys == { Strip(k) : k \in KeyInputs } \ { <<>> }

\* r.get("error") of a result without the key
Absent == "absent"

NoEntry == [data |-> <<>>, at |-> -1]

OrgPersona == [hash |-> "h1", is_organisation |-> TRUE]

UserPersona == [hash |-> "h2", is_organisation |-> FALSE]

\* decoded JSON of the personas archive: a list, or a mapping whose values
\* are examined in order
PersonasPayloads ==
  { [shape |-> "list", values |-> <<UserPersona, OrgPersona>>],
    [shape |-> "dict", values |-> <<>>] }

\* GET /teams: a JSON array of {id, name}
TeamsPayloads ==
  { <<>>,
    << [id |-> 1,  name |-> <<"S", " ", "-", " ", "A">>],
       [id |-> 12, name |-> <<"T", " ", "-", " ", "N", " ", "-", " ",
                              "2", "0", "2", "3", "/", "0", "5", "/", "0", "1">>],
       [id |-> 3,  name |-> <<"X", " ", "-", " ", "B">>] >> }

\* outcome of the HTTP exchange behind one fetch
HttpError == [kind |-> "http_error"]

OtherError == [kind |-> "error"]

Fetched(payload) == [kind |-> "ok", payload |-> payload]

PersonasReplies == {HttpError, OtherError} \cup {Fetched(p) : p \in PersonasPayloads}

TeamsReplies == {HttpError, OtherError} \cup {Fetched(p) : p \in TeamsPayloads}

\* lines 61-67: a list is returned as is; of a mapping the first list value;
\* anything else gives the empty list
PersonasOf(payload) ==
  IF payload.shape = "list" THEN payload.values
  ELSE IF payload.shape = "dict" /\ payload.values # <<>> THEN payload.values[1]
  ELSE <<>>

\* line 78
TeamsOf(payload) ==
  [k \in 1..Len(payload) |-> [team_id |-> payload[k].id, name |-> payload[k].name]]

\* line 114
IsOrg(p) == p.is_organisation

OrgsOf(personas) == SelectSeq(personas, IsOrg)

\* variant: an entry never expires
ValidForever(entry, now) == entry # NoEntry

\* an entry of st.cache_data is served while it is younger than the ttl
Valid(entry, now) == entry # NoEntry /\ now - entry.at < TTL

\* variant: a call that raises leaves an empty entry behind
CachedCallKeepsFailure(cache, key, now, reply, data) ==
  IF Valid(cache[key], now)
  THEN [req |-> FALSE, raised |-> "none", data |-> cache[key].data, cache |-> cache]
  ELSE IF reply.kind = "ok"
  THEN [req |-> TRUE, raised |-> "none", data |-> data,
        cache |-> [cache EXCEPT ![key] = [data |-> data, at |-> now]]]
  ELSE [req |-> TRUE, raised |-> reply.kind, data |-> <<>>,
        cache |-> [cache EXCEPT ![key] = [data |-> <<>>, at |-> now]]]

\* One call of a function decorated with st.cache_data: a valid entry is
\* served without a request; otherwise the request is made, its result is
\* stored on success, and nothing is stored when it raises.
CachedCall(cache, key, now, reply, data) ==
  IF Valid(cache[key], now)
  THEN [req |-> FALSE, raised |-> "none", data |-> cache[key].data, cache |-> cache]
  ELSE IF reply.kind = "ok"
  THEN [req |-> TRUE, raised |-> "none", data |-> data,
        cache |-> [cache EXCEPT ![key] = [data |-> data, at |-> now]]]
  ELSE [req |-> TRUE, raised |-> reply.kind, data |-> <<>>, cache |-> cache]

fetch_personas(cache, key, now, reply) ==
  CachedCall(cache, key, now, reply,
             IF reply.kind = "ok" THEN PersonasOf(reply.payload) ELSE <<>>)

fetch_teams(cache, key, now, reply) ==
  CachedCall(cache, key, now, reply,
             IF reply.kind = "ok" THEN TeamsOf(reply.payload) ELSE <<>>)

\* fetch_personas.clear() / fetch_teams.clear(): every entry of the function
Cleared(cache) == [k \in DOMAIN cache |-> NoEntry]

\* ------------------------------------------------------------------------
\* Page: widgets and the values of the last script run
\* ------------------------------------------------------------------------

DigitChar(d) == <<"0","1","2","3","4","5","6","7","8","9">>[d + 1]

\* str() of a non-negative integer
RECURSIVE Str(_)
Str(n) == IF n < 10 THEN <<DigitChar(n)>> ELSE Str(n \div 10) \o <<DigitChar(n % 10)>>

\* line 165: f"{clean_team_name(t['name'])}  (id: {t['team_id']})"
TeamLabel(t) ==
  clean_team_name(t.name) \o <<" ", " ", "(", "i", "d", ":", " ">> \o Str(t.team_id) \o <<")">>

\* keys of team_options in insertion order (a repeated label keeps its
\* first position)
OptionLabels(teams) ==
  LET all == [k \in 1..Len(teams) |-> TeamLabel(teams[k])]
      first(k) == \A j \in 1..(k - 1) : all[j] # all[k]
      idx == {k \in 1..Len(teams) : first(k)}
      RECURSIVE build(_)
      build(k) == IF k > Len(teams) THEN <<>>
                  ELSE (IF k \in idx THEN <<all[k]>> ELSE <<>>) \o build(k + 1)
  IN  build(1)

\* team_options[label]: the last team written under the label
TeamOfLabel(teams, label) ==
  LET ks == {k \in 1..Len(teams) : TeamLabel(teams[k]) = label}
  IN  teams[CHOOSE k \in ks : \A j \in ks : j <= k]

\* line 186
ChosenTeams(teams, labels) ==
  [k \in 1..Len(labels) |-> TeamOfLabel(teams, labels[k])]

\* text typed into the title and body fields
Texts == { <<>>, <<" ">>, <<"H", "i">> }

\* line 213
Ready(title, body, chosen_teams) ==
  Strip(title) # <<>> /\ Strip(body) # <<>> /\ chosen_teams # <<>>

BlankPage == [sel |-> <<>>, chosen |-> <<>>, title |-> <<>>, body |-> <<>>]

NoSummary == [successes |-> -1, failures |-> -1, details |-> <<>>]

IdleRun == [pc |-> "idle", team_ids |-> <<>>, i |-> 0, results |-> <<>>,
            sent |-> <<>>, inflight |-> 0, delays |-> 0, progress |-> 0,
            summary |-> NoSummary]

\* st.session_state: the keys it holds and their values
StateKeys == {"api_key", "orgs", "teams"}

NoSession == [stored |-> {}, api_key |-> <<>>, orgs |-> <<>>, teams |-> <<>>]

NoEvent == [n |-> 0, s |-> 0, act |-> "none", out |-> "none", key |-> <<>>,
            pReq |-> FALSE, tReq |-> FALSE]

VARIABLES
  clock,          \* seconds since the server started
  personasCache,  \* entries of fetch_personas, by credential
  teamsCache,     \* entries of fetch_teams, by credential
  session,        \* st.session_state of each session
  page,           \* widget values and chosen_teams of the last run
  run,            \* the publish loop of the current script run
  ev,             \* the last user action handled, and the requests it sent
  lastAct         \* the last user action of each session, edits of the
                  \* article aside

avars == <<clock, personasCache, teamsCache, session, page, run, ev, lastAct>>

\* toggled by every handled user action, so that two equal actions in a row
\* are still two events
Flip(n) == 1 - n

\* the handled action is noted: what it was, how it ended, the credential it
\* used, and whether it sent a personas request and a teams request
Noted(s, act, out, key, pReq, tReq) ==
  ev' = [n |-> Flip(ev.n), s |-> s, act |-> act, out |-> out, key |-> key,
         pReq |-> pReq, tReq |-> tReq]

Handled(s, act, out, key, pReq, tReq) ==
  /\ Noted(s, act, out, key, pReq, tReq)
  /\ lastAct' = [lastAct EXCEPT ![s] = act]

\* lines 127-141: the script goes on past the gates
PastGate(ss) == "api_key" \in ss.stored /\ ss.orgs # <<>> /\ ss.teams # <<>>

\* lines 168-186 of a run without the select-all flag; a run stopped at a
\* gate renders no widget and their values are dropped
Rendered(ss, pg) ==
  IF PastGate(ss) THEN [pg EXCEPT !.chosen = ChosenTeams(ss.teams, pg.sel)]
  ELSE BlankPage

\* widget values after st.rerun() cut a run short before the widgets were
\* reached: kept or dropped; a multiselect over other options starts empty
AfterReconnect(old, new, pg) ==
  {BlankPage} \cup
  (IF /\ PastGate(old)
       /\ PastGate(new)
       /\ (old.teams = new.teams \/ OptionLabels(old.teams) = OptionLabels(new.teams))
   THEN {pg} ELSE {})

AfterCutShort(pg) == {pg, [pg EXCEPT !.title = <<>>, !.body = <<>>]}

\* lines 112-117: both fetches, then the three assignments
Connected(key, personas, teams) ==
  [stored |-> StateKeys, api_key |-> key, orgs |-> OrgsOf(personas), teams |-> teams]

\* lines 120-123
ErrorMessage(raised) == IF raised = "http_error" THEN "api_error" ELSE "unexpected_error"

\* lines 106-123, and the rest of the run (or the rerun of line 119)
Connect(s, input, pres, tres) ==
  /\ run[s].pc = "idle"
  /\ LET key == Strip(input) IN
     IF key = <<>>
     THEN /\ Handled(s, "connect", "no_key", <<>>, FALSE, FALSE)
          /\ page' = [page EXCEPT ![s] = Rendered(session[s], page[s])]
          /\ UNCHANGED <<personasCache, teamsCache, session>>
     ELSE LET p == fetch_personas(personasCache, key, clock, pres) IN
          IF p.raised # "none"
          THEN /\ personasCache' = p.cache
               /\ Handled(s, "connect", ErrorMessage(p.raised), key, p.req, FALSE)
               /\ page' = [page EXCEPT ![s] = Rendered(session[s], page[s])]
               /\ UNCHANGED <<teamsCache, session>>
          ELSE LET t == fetch_teams(teamsCache, key, clock, tres) IN
               /\ personasCache' = p.cache
               /\ teamsCache' = t.cache
               /\ IF t.raised # "none"
                  THEN /\ Handled(s, "connect", ErrorMessage(t.raised), key, p.req, t.req)
                       /\ page' = [page EXCEPT ![s] = Rendered(session[s], page[s])]
                       /\ UNCHANGED session
                  ELSE LET ss == Connected(key, p.data, t.data) IN
                       /\ session' = [session EXCEPT ![s] = ss]
                       /\ Handled(s, "connect", "connected", key, p.req, t.req)
                       /\ \E pg \in AfterReconnect(session[s], ss, page[s]) :
                            page' = [page EXCEPT ![s] = Rendered(ss, pg)]
  /\ run' = [run EXCEPT ![s] = IdleRun]
  /\ UNCHANGED clock

\* lines 301-307, then the rerun that stops at the first gate
Refresh(s) ==
  /\ run[s].pc = "idle"
  /\ PastGate(session[s])
  /\ personasCache' = Cleared(personasCache)
  /\ teamsCache' = Cleared(teamsCache)
  /\ session' = [session EXCEPT ![s] = NoSession]
  /\ page' = [page EXCEPT ![s] = Rendered(NoSession, page[s])]
  /\ run' = [run EXCEPT ![s] = IdleRun]
  /\ Handled(s, "refresh", "disconnected", <<>>, FALSE, FALSE)
  /\ UNCHANGED clock

\* time passes
Tick ==
  /\ clock + TickStep <= MaxTicks * TickStep
  /\ clock' = clock + TickStep
  /\ UNCHANGED <<personasCache, teamsCache, session, page, run, ev, lastAct>>

\* ------------------------------------------------------------------------
\* Selection, composition and the publish loop
\* ------------------------------------------------------------------------

\* values a multiselect can hold: its options in the order they were picked
Picks(labels) ==
  LET S == {labels[k] : k \in 1..Len(labels)}
  IN  UNION {{f \in [1..n -> S] : \A a, b \in 1..n : a # b => f[a] # f[b]} :
             n \in 0..Cardinality(S)}

AllPicks == UNION {Picks(OptionLabels(TeamsOf(p))) : p \in TeamsPayloads}

\* the multiselect is changed; the script reruns (lines 168-186)
SetTeams(s, sel) ==
  /\ run[s].pc = "idle"
  /\ PastGate(session[s])
  /\ sel \in Picks(OptionLabels(session[s].teams))
  /\ sel # page[s].sel
  /\ page' = [page EXCEPT ![s] = Rendered(session[s], [page[s] EXCEPT !.sel = sel])]
  /\ run' = [run EXCEPT ![s] = IdleRun]
  /\ Handled(s, "teams", "rendered", <<>>, FALSE, FALSE)
  /\ UNCHANGED <<clock, personasCache, teamsCache, session>>

\* the title or the body is edited; the script reruns (lines 193-200)
SetTitle(s, text) ==
  /\ run[s].pc = "idle"
  /\ PastGate(session[s])
  /\ text # page[s].title
  /\ page' = [page EXCEPT ![s] = Rendered(session[s], [page[s] EXCEPT !.title = text])]
  /\ run' = [run EXCEPT ![s] = IdleRun]
  /\ Noted(s, "title", "rendered", <<>>, FALSE, FALSE)
  /\ UNCHANGED lastAct
  /\ UNCHANGED <<clock, personasCache, teamsCache, session>>

SetBody(s, text) ==
  /\ run[s].pc = "idle"
  /\ PastGate(session[s])
  /\ text # page[s].body
  /\ page' = [page EXCEPT ![s] = Rendered(session[s], [page[s] EXCEPT !.body = text])]
  /\ run' = [run EXCEPT ![s] = IdleRun]
  /\ Noted(s, "body", "rendered", <<>>, FALSE, FALSE)
  /\ UNCHANGED lastAct
  /\ UNCHANGED <<clock, personasCache, teamsCache, session>>

\* lines 183-184 of the run that finds the flag: every option is chosen for
\* this run; the multiselect itself is not written
AllChosen(teams) == ChosenTeams(teams, OptionLabels(teams))

\* lines 177-186: the click sets the flag and reruns; the rerun pops the flag
SelectAll(s) ==
  /\ run[s].pc = "idle"
  /\ PastGate(session[s])
  /\ \E pg \in AfterCutShort(page[s]) :
       page' = [page EXCEPT ![s] = [pg EXCEPT !.chosen = AllChosen(session[s].teams)]]
  /\ run' = [run EXCEPT ![s] = IdleRun]
  /\ Handled(s, "select_all", "rendered", <<>>, FALSE, FALSE)
  /\ UNCHANGED <<clock, personasCache, teamsCache, session>>

\* line 247
TeamIds(chosen_teams) == [k \in 1..Len(chosen_teams) |-> chosen_teams[k].team_id]

\* lines 231-250: the button is enabled when the page shown was ready; the
\* click reruns the script, which publishes if this run is ready
PublishClick(s) ==
  /\ run[s].pc = "idle"
  /\ PastGate(session[s])
  /\ Ready(page[s].title, page[s].body, page[s].chosen)
  /\ LET pg == Rendered(session[s], page[s])
         ready == Ready(pg.title, pg.body, pg.chosen)
     IN  /\ page' = [page EXCEPT ![s] = pg]
         /\ run' = [run EXCEPT ![s] =
                      IF ready
                      THEN [IdleRun EXCEPT !.pc = "send", !.team_ids = TeamIds(pg.chosen)]
                      ELSE IdleRun]
         /\ Handled(s, "publish", IF ready THEN "started" ELSE "not_ready",
                    <<>>, FALSE, FALSE)
  /\ UNCHANGED <<clock, personasCache, teamsCache, session>>

\* replies of POST /messages, and a request that raised RequestException
Responses ==
  { [kind |-> "http", status |-> 200],
    [kind |-> "http", status |-> 304],
    [kind |-> "http", status |-> 500],
    [kind |-> "exception", status |-> 0] }

\* lines 81-89 (requests.Response.ok: status below 400)
publish_to_team(resp) ==
  IF resp.kind = "http"
  THEN IF resp.status < 400
       THEN [ok |-> TRUE, status |-> resp.status, error |-> Absent]
       ELSE [ok |-> FALSE, status |-> resp.status, error |-> "text"]
  ELSE [ok |-> FALSE, status |-> 0, error |-> "exception"]

\* lines 253-264
Payload(persona_hash, team_id) ==
  [persona |-> persona_hash, channel |-> "websites", team_id |-> team_id, type |-> "team"]

\* variant: only successful results are kept
RecordResultOkOnly(results, team_id, result) ==
  IF result.ok
  THEN Append(results, [team_id |-> team_id, ok |-> result.ok,
                        status |-> result.status, error |-> result.error])
  ELSE results

\* line 266
RecordResult(results, team_id, result) ==
  Append(results, [team_id |-> team_id, ok |-> result.ok,
                   status |-> result.status, error |-> result.error])

\* variant: the delay is taken after the last request too
SleepsAfterEvery(i, n) == i < n

\* line 268, with the zero-based index of the loop
SleepsAfter(i, n) == i < n - 1

\* variant: the loop gives up at the first failure
AfterResultStopOnFailure(i, n, result) ==
  IF ~result.ok THEN "report" ELSE IF SleepsAfter(i, n) THEN "sleep" ELSE "report"

\* lines 265-269: whatever the result, the loop sleeps and goes on to the
\* next team, or ends after the last one
AfterResult(i, n, result) == IF SleepsAfter(i, n) THEN "sleep" ELSE "report"

\* line 265, the request leaves
Send(s) ==
  /\ run[s].pc = "send"
  /\ run' = [run EXCEPT ![s] =
       [@ EXCEPT !.pc = "wait",
                 !.inflight = @ + 1,
                 !.sent = Append(@, Payload(session[s].orgs[1].hash,
                                            run[s].team_ids[run[s].i + 1]))]]
  /\ UNCHANGED <<clock, personasCache, teamsCache, session, page, ev, lastAct>>

\* lines 265-268, the request returns
Respond(s, resp) ==
  /\ run[s].pc = "wait"
  /\ run' = [run EXCEPT ![s] =
       [@ EXCEPT !.pc = AfterResult(run[s].i, Len(run[s].team_ids),
                                    publish_to_team(resp)),
                 !.inflight = @ - 1,
                 !.results = RecordResult(@, run[s].team_ids[run[s].i + 1],
                                          publish_to_team(resp)),
                 !.progress = run[s].i + 1]]
  /\ UNCHANGED <<clock, personasCache, teamsCache, session, page, ev, lastAct>>

\* line 269, and the loop moves to the next team
Sleep(s) ==
  /\ run[s].pc = "sleep"
  /\ run' = [run EXCEPT ![s] =
       [@ EXCEPT !.pc = IF run[s].i + 1 < Len(run[s].team_ids) THEN "send" ELSE "report",
                 !.delays = @ + 1,
                 !.i = @ + 1]]
  /\ UNCHANGED <<clock, personasCache, teamsCache, session, page, ev, lastAct>>

IsOk(r) == r.ok

IsFailure(r) == ~r.ok

\* variant: the raw name is shown
TeamNameRaw(teams, team_id) ==
  LET ks == {k \in 1..Len(teams) : teams[k].team_id = team_id}
  IN  IF ks = {} THEN Str(team_id)
      ELSE teams[CHOOSE k \in ks : \A j \in ks : k <= j].name

\* lines 285-288: the first team of the list with the id, else str(id)
TeamName(teams, team_id) ==
  LET ks == {k \in 1..Len(teams) : teams[k].team_id = team_id}
  IN  IF ks = {} THEN Str(team_id)
      ELSE clean_team_name(teams[CHOOSE k \in ks : \A j \in ks : k <= j].name)

\* lines 276-292
Summary(results, teams) ==
  [successes |-> Len(SelectSeq(results, IsOk)),
   failures  |-> Len(SelectSeq(results, IsFailure)),
   details   |-> [k \in 1..Len(results) |->
                    [label  |-> TeamName(teams, results[k].team_id),
                     ok     |-> results[k].ok,
                     status |-> results[k].status,
                     error  |-> IF results[k].error = Absent /\ ~results[k].ok
                                THEN "unknown error" ELSE results[k].error]]]

\* lines 271-292, and the run ends
Report(s) ==
  /\ run[s].pc = "report"
  /\ run' = [run EXCEPT ![s] =
       [@ EXCEPT !.pc = "idle", !.summary = Summary(run[s].results, session[s].teams)]]
  /\ UNCHANGED <<clock, personasCache, teamsCache, session, page, ev, lastAct>>

\* ------------------------------------------------------------------------
\* Specifications
\* ------------------------------------------------------------------------

VARIABLES
  raw,            \* a raw team name handed to the normalizer
  once,           \* clean_team_name(raw)
  twice,          \* clean_team_name(once)
  npc             \* how far the normalizer run has got

vars == <<clock, personasCache, teamsCache, session, page, run, ev, lastAct,
          raw, once, twice, npc>>

AppInit ==
  /\ clock = 0
  /\ personasCache = [k \in Keys |-> NoEntry]
  /\ teamsCache = [k \in Keys |-> NoEntry]
  /\ session = [s \in Sessions |-> NoSession]
  /\ page = [s \in Sessions |-> BlankPage]
  /\ run = [s \in Sessions |-> IdleRun]
  /\ ev = NoEvent
  /\ lastAct = [s \in Sessions |-> "none"]

NormIdle ==
  /\ raw = <<>>
  /\ once = <<>>
  /\ twice = <<>>
  /\ npc = "raw"

\* the session of the operator who composes and publishes
Operator == 1

\* the credential field of the operator: blank, or one credential
OperatorInputs == { <<" ">>, <<"a", " ">> }

NormStays == UNCHANGED <<raw, once, twice, npc>>

\* one operator working through the page, within the lifetime of the
\* cached entries (expiry is explored by SpecCache)
Next ==
  \/ \E input \in OperatorInputs, pres \in PersonasReplies, tres \in TeamsReplies :
       Connect(Operator, input, pres, tres) /\ NormStays
  \/ Refresh(Operator) /\ NormStays
  \/ \E sel \in AllPicks : SetTeams(Operator, sel) /\ NormStays
  \/ \E text \in Texts : SetTitle(Operator, text) /\ NormStays
  \/ \E text \in Texts : SetBody(Operator, text) /\ NormStays
  \/ SelectAll(Operator) /\ NormStays
  \/ PublishClick(Operator) /\ NormStays
  \/ Send(Operator) /\ NormStays
  \/ \E resp \in Responses : Respond(Operator, resp) /\ NormStays
  \/ Sleep(Operator) /\ NormStays
  \/ Report(Operator) /\ NormStays

Init == AppInit /\ NormIdle

Spec == Init /\ [][Next]_vars

\* replies explored with several sessions: each kind of failure, and the
\* reference data that lets a session past the gates
CachePersonasReplies ==
  {HttpError, OtherError} \cup
  {Fetched(p) : p \in {q \in PersonasPayloads : OrgsOf(PersonasOf(q)) # <<>>}}

CacheTeamsReplies ==
  {HttpError, OtherError} \cup {Fetched(p) : p \in TeamsPayloads \ {<<>>}}

\* several sessions connecting and refreshing against the one process-wide
\* cache while time passes
CacheNext ==
  \/ Tick /\ NormStays
  \/ \E s \in Sessions, input \in KeyInputs,
        pres \in CachePersonasReplies, tres \in CacheTeamsReplies :
       Connect(s, input, pres, tres) /\ NormStays
  \/ \E s \in Sessions : Refresh(s) /\ NormStays

SpecCache == Init /\ [][CacheNext]_vars

\* ------------------------------------------------------------------------
\* The normalizer on its own
\* ------------------------------------------------------------------------

NormInit ==
  /\ raw \in RawNames
  /\ once = <<>>
  /\ twice = <<>>
  /\ npc = "raw"

Normalize ==
  /\ npc = "raw"
  /\ once' = clean_team_name(raw)
  /\ npc' = "once"
  /\ UNCHANGED <<raw, twice>>

Renormalize ==
  /\ npc = "once"
  /\ twice' = clean_team_name(once)
  /\ npc' = "twice"
  /\ UNCHANGED <<raw, once>>

NormNext ==
  \/ Normalize /\ UNCHANGED avars
  \/ Renormalize /\ UNCHANGED avars

NormStart == AppInit /\ NormInit

SpecNorm == NormStart /\ [][NormNext]_vars

\* ------------------------------------------------------------------------
\* Properties
\* ------------------------------------------------------------------------

\* the publish loop of the run has ended (line 271 reached)
LoopDone(s) == run[s].pc = "report" \/ run[s].summary # NoSummary

\* C1: a publish loop over N >= 1 selected team ids ends with exactly N
\* requests sent and exactly N results recorded, the k-th request and the
\* k-th result carrying the k-th team id, whatever the requests returned.
C1_ResultsMirrorTeamIds ==
  \A s \in Sessions : LoopDone(s) =>
    LET r == run[s]
        n == Len(r.team_ids)
    IN  /\ n > 0
        /\ r.team_ids = TeamIds(page[s].chosen)
        /\ Len(r.sent) = n
        /\ Len(r.results) = n
        /\ \A k \in 1..n : /\ r.sent[k].team_id = r.team_ids[k]
                           /\ r.results[k].team_id = r.team_ids[k]

\* a finished loop over three teams picked in an order other than the list
\* order, with a failure between two successes
C1_Witness ==
  \E s \in Sessions :
    /\ LoopDone(s)
    /\ run[s].team_ids = <<12, 3, 1>>
    /\ Len(run[s].results) = 3
    /\ run[s].results[1].ok /\ ~run[s].results[2].ok /\ run[s].results[3].ok

\* C2: every outcome of a request is recorded as a result value (a
\* transport failure as a failed result with status 0), a position is
\* requested once and never again, and while results are missing the loop
\* is still going, so a failure never keeps the later teams from being tried.
C2_FailureDoesNotStopBatch ==
  \A s \in Sessions :
    LET r == run[s]
        n == Len(r.team_ids)
    IN  /\ Len(r.sent) \in {Len(r.results), Len(r.results) + 1}
        /\ \A k \in 1..Len(r.sent) : r.sent[k].team_id = r.team_ids[k]
        /\ Len(r.results) < n => r.pc \in {"send", "wait", "sleep"}
        /\ LoopDone(s) => Len(r.sent) = n
        /\ \A k \in 1..Len(r.results) :
             /\ r.results[k].status = 0 => ~r.results[k].ok /\ r.results[k].error = "exception"
             /\ r.results[k].status >= 400 => ~r.results[k].ok /\ r.results[k].error = "text"

\* a finished loop over three teams whose first request failed in transport
\* and whose other two were refused
C2_Witness ==
  \E s \in Sessions :
    /\ LoopDone(s)
    /\ Len(run[s].results) = 3
    /\ run[s].results[1].status = 0
    /\ run[s].results[2].status = 500
    /\ run[s].results[3].status = 500
    /\ Len(run[s].sent) = 3

\* C6: at most one publish request is in flight; the request for the next
\* team leaves only after the result of the previous one is recorded and
\* its progress reported; a delay follows every request but the last, so a
\* loop over N teams takes N-1 delays.
C6_SequentialWithDelays ==
  \A s \in Sessions :
    LET r == run[s]
        n == Len(r.team_ids)
    IN  /\ r.inflight \in {0, 1}
        /\ r.inflight = 1 <=> r.pc = "wait"
        /\ r.pc = "send" =>
             Len(r.sent) = r.i /\ Len(r.results) = r.i /\ r.progress = r.i /\ r.delays = r.i
        /\ r.pc = "wait" =>
             Len(r.sent) = r.i + 1 /\ Len(r.results) = r.i /\ r.progress = r.i /\ r.delays = r.i
        /\ r.pc = "sleep" =>
             r.i < n - 1 /\ Len(r.results) = r.i + 1 /\ r.progress = r.i + 1 /\ r.delays = r.i
        /\ LoopDone(s) => r.delays = n - 1 /\ r.progress = n

\* a finished loop over three teams that took two delays
C6_Witness ==
  \E s \in Sessions :
    /\ LoopDone(s)
    /\ Len(run[s].team_ids) = 3
    /\ run[s].delays = 2

\* C7: the summary of N results with k successes counts k successes and N-k
\* failures and lists N details in the order of the results, each labelled
\* with the normalized name of the team of the last-known list that has the
\* result's id, or with the id as text when no team has it.
C7_SummaryCountsAndLabels ==
  \A s \in Sessions : run[s].summary # NoSummary =>
    LET r == run[s].results
        n == Len(r)
        sm == run[s].summary
        teams == session[s].teams
        k == Cardinality({j \in 1..n : r[j].ok})
    IN  /\ sm.successes = k
        /\ sm.failures = n - k
        /\ Len(sm.details) = n
        /\ \A j \in 1..n :
             /\ sm.details[j].ok = r[j].ok
             /\ sm.details[j].status = r[j].status
             /\ sm.details[j].label =
                  IF \E m \in 1..Len(teams) : teams[m].team_id = r[j].team_id
                  THEN clean_team_name(
                         teams[CHOOSE m \in 1..Len(teams) : teams[m].team_id = r[j].team_id].name)
                  ELSE Str(r[j].team_id)

\* a summary of three results, two successes and one failure, whose first
\* detail is the team "T - N - 2023/05/01" shown as "N"
C7_Witness ==
  \E s \in Sessions :
    /\ run[s].summary # NoSummary
    /\ run[s].summary.successes = 2
    /\ run[s].summary.failures = 1
    /\ Len(run[s].summary.details) = 3
    /\ run[s].results[1].team_id = 12
    /\ run[s].summary.details[1].label = <<"N">>

\* C9: after "Select all", with a valid title and body and the selection
\* left alone, the publish click that comes next sends one request to every
\* team of the last-known list.
C9_Original ==
  [][ ( /\ lastAct[Operator] = "select_all"
        /\ Strip(page[Operator].title) # <<>>
        /\ Strip(page[Operator].body) # <<>>
        /\ ev'.n # ev.n
        /\ ev'.s = Operator
        /\ ev'.act = "publish" )
      => ( /\ run'[Operator].pc = "send"
           /\ {run'[Operator].team_ids[k] : k \in 1..Len(run'[Operator].team_ids)}
                = {session[Operator].teams[k].team_id : k \in 1..Len(session[Operator].teams)} )
    ]_vars

\* C5: the refresh leaves the session without credential, persona list and
\* team list and the caches empty, and the next Connect of that session
\* that succeeds has sent both a personas and a teams request.
C5_Original ==
  [][ \A s \in Sessions :
        /\ (ev'.n # ev.n /\ ev'.s = s /\ ev'.act = "refresh")
             => /\ session'[s] = NoSession
                /\ \A k \in Keys : personasCache'[k] = NoEntry /\ teamsCache'[k] = NoEntry
        /\ ( /\ lastAct[s] = "refresh"
             /\ ev'.n # ev.n /\ ev'.s = s /\ ev'.act = "connect" /\ ev'.out = "connected" )
             => ev'.pReq /\ ev'.tReq
    ]_vars

\* C8: no action of one session changes the cached personas or teams (data
\* or fetch time) held for the credential of another session.
C8_Original ==
  [][ \A a, b \in Sessions :
        ( /\ a # b
          /\ ev'.n # ev.n /\ ev'.s = a
          /\ "api_key" \in session[b].stored )
        => /\ personasCache'[session[b].api_key] = personasCache[session[b].api_key]
           /\ teamsCache'[session[b].api_key] = teamsCache[session[b].api_key]
    ]_vars

\* C3 as stated: the reference data of a credential is one cached pair; a
\* Connect that succeeds sends nothing while the pair is held and younger
\* than the TTL, and otherwise sends both requests together.
C3_Original ==
  [][ (ev'.n # ev.n /\ ev'.act = "connect" /\ ev'.out = "connected") =>
        LET k == ev'.key
            held == /\ personasCache[k] # NoEntry /\ clock - personasCache[k].at < TTL
                    /\ teamsCache[k] # NoEntry /\ clock - teamsCache[k].at < TTL
        IN  IF held THEN ~ev'.pReq /\ ~ev'.tReq ELSE ev'.pReq /\ ev'.tReq
    ]_vars

\* C3 amended: personas and teams are cached separately.  A Connect with a
\* credential sends a personas request exactly when no personas entry
\* younger than TTL seconds is held for the credential, and, once the
\* personas call has returned, a teams request exactly when no such teams
\* entry is held; a request that succeeds leaves an entry stamped with the
\* current time.
C3_CachedSeparately ==
  [][ (ev'.n # ev.n /\ ev'.act = "connect" /\ ev'.out # "no_key") =>
        LET k == ev'.key
            pHeld == personasCache[k] # NoEntry /\ clock - personasCache[k].at < TTL
            tHeld == teamsCache[k] # NoEntry /\ clock - teamsCache[k].at < TTL
        IN  /\ ev'.pReq <=> ~pHeld
            /\ ev'.out = "connected" => (ev'.tReq <=> ~tHeld)
            /\ ev'.tReq => ~tHeld
            /\ (ev'.out # "connected" /\ ~ev'.tReq) => ev'.pReq
            /\ (ev'.pReq /\ (ev'.tReq \/ ev'.out = "connected")) => personasCache'[k].at = clock
            /\ (ev'.tReq /\ ev'.out = "connected") => teamsCache'[k].at = clock
    ]_vars

\* a Connect that succeeded after the personas entry had expired while the
\* teams entry, fetched later, was still served: one request, not a pair
C3_Witness ==
  /\ ev.act = "connect"
  /\ ev.out = "connected"
  /\ ev.pReq
  /\ ~ev.tReq
  /\ clock >= TTL
  /\ personasCache[ev.key].at = clock
  /\ teamsCache[ev.key].at > 0
  /\ teamsCache[ev.key].at < clock

\* C4 as stated: a Connect that fails leaves the stored credential, persona
\* list and team list and the cached personas and teams as they were.
C4_Original ==
  [][ ( /\ ev'.n # ev.n
        /\ ev'.act = "connect"
        /\ ev'.out \in {"api_error", "unexpected_error"} )
      => /\ session'[ev'.s] = session[ev'.s]
         /\ personasCache' = personasCache
         /\ teamsCache' = teamsCache
    ]_vars

\* C4 amended: a Connect that fails leaves the stored credential, persona
\* list and team list of every session and the cached teams as they were;
\* the cached personas change only when the personas request succeeded and
\* the teams request then failed, and then only the entry of the credential
\* used, which holds the personas just fetched.
C4_FailedConnect ==
  [][ ( /\ ev'.n # ev.n
        /\ ev'.act = "connect"
        /\ ev'.out \in {"api_error", "unexpected_error"} )
      => /\ session' = session
         /\ teamsCache' = teamsCache
         /\ personasCache' # personasCache =>
              /\ ev'.pReq /\ ev'.tReq
              /\ \A k \in Keys \ {ev'.key} : personasCache'[k] = personasCache[k]
              /\ personasCache'[ev'.key].at = clock
    ]_vars

\* a connected session whose Connect fetched the personas and then failed on
\* the teams: it is still connected, and the personas entry is new
C4_Witness ==
  /\ ev.act = "connect"
  /\ ev.out = "api_error"
  /\ ev.pReq
  /\ ev.tReq
  /\ "api_key" \in session[ev.s].stored
  /\ clock > 0
  /\ personasCache[ev.key].at = clock

\* C10 as stated: normalizing a normalized name changes nothing.
C10_Original == npc = "twice" => twice = once

\* C10 amended: for a raw name without a line feed, normalizing the
\* normalized name changes nothing unless the normalized name itself begins
\* with "<uppercase letter> - ".
C10_IdempotentWithoutPrefix ==
  ( /\ npc = "twice"
    /\ \A k \in 1..Len(raw) : raw[k] # "\n"
    /\ ~(Len(once) >= 4 /\ once[1] \in Upper /\ SubSeq(once, 2, 4) = <<" ", "-", " ">>) )
  => twice = once

\* "T - News - 2024/01/05 " normalized to "News", and again to "News"
C10_Witness ==
  /\ npc = "twice"
  /\ raw = <<"T", " ", "-", " ", "N", "e", "w", "s",
             " ", "-", " ", "2", "0", "2", "4", "/", "0", "1", "/", "0", "5", " ">>
  /\ once = <<"N", "e", "w", "s">>
  /\ twice = once

====
